---- MODULE Spec2Model ----
(***************************************************************************)
(* Signature-based witness encryption (swe.py), the modified BLS           *)
(* aggregation (modbls.py) and the baby-step-giant-step discrete-log       *)
(* solver (ecutils.py).                                                    *)
(*                                                                         *)
(* The pairing library is modelled algebraically.  The groups G1, G2 and   *)
(* GT are cyclic of the same prime order pymcl_r; an element is held as    *)
(* its discrete logarithm to the group's generator (g1, g2, and            *)
(* gt = pairing(g1, g2)), so that                                          *)
(*    P + Q and P * k in G1/G2  are  + and * of logarithms mod pymcl_r,    *)
(*    a * b and a ** k in GT    are  + and * of logarithms mod pymcl_r,    *)
(*    pairing(P, Q)             is  the product of the logarithms.         *)
(* Equality of group elements is equality of logarithms.  The order is a   *)
(* small prime instead of the 255-bit one; it is a variable so that each   *)
(* specification fixes the orders it is checked for.                       *)
(* Python lists are sequences, so indices are 1-based here: index k of     *)
(* the model is index k-1 of the code.                                     *)
(***************************************************************************)
EXTENDS Integers, Sequences, FiniteSets, TLC

VARIABLES
    pymcl_r,      \* order of Fr, G1, G2, GT (pymcl.r)
    max_value,    \* discrete log: bound handed to build_baby_step_table/discrete_log
    base,         \* discrete log: the base (an element of GT)
    baby_steps,   \* discrete log: the table built (NoTable, the empty dict, before)
    dl_x,         \* discrete log: exponent of the value last searched
    dl_out,       \* discrete log: what discrete_log returned or raised
    keys,         \* the key pairs generated so far, [sk, vk] each
    sign_msgs,    \* modbls: the message each key signed
    sigs,         \* modbls: the signatures, sigs[i] = sign(keys[i].sk, sign_msgs[i])
    agg_sig,      \* modbls: what agg_sigs(sigs, ver_keys) returned
    av_in,        \* modbls: the lists last handed to agg_verify
    av_out,       \* modbls: what agg_verify returned or raised
    sv_in,        \* modbls: the (signer, key, message) last handed to verify
    sv_out,       \* modbls: what verify returned
    enc_in,       \* swe: the arguments and the random draws of encrypt
    ctxt,         \* swe: the ciphertext encrypt returned
    dec_in,       \* swe: the signers aggregated and used_vk_indices of decrypt
    dec_out,      \* swe: what decrypt returned or raised
    fr_div_zero,  \* pymcl: what a division of Fr by zero does in this build
    li_in,        \* modbls: the (xi, i) last handed to compute_li
    li_out,       \* modbls: what compute_li returned or raised
    as_in,        \* modbls: the positions of the keys last handed to agg_sigs
    shard_in,     \* discrete log: the exponent and the part [lo, hi) of the giant steps searched
    shard_out     \* discrete log: what the search of that part returned or raised

dl_vars == <<max_value, base, baby_steps, dl_x, dl_out>>
bls_vars == <<sign_msgs, sigs, agg_sig, av_in, av_out, sv_in, sv_out>>
swe_vars == <<enc_in, ctxt, dec_in, dec_out>>
call_vars == <<fr_div_zero, li_in, li_out, as_in, shard_in, shard_out>>
vars == <<pymcl_r, dl_vars, keys, bls_vars, swe_vars, call_vars>>

(***************************************************************************)
(* Bounds of the model.                                                    *)
(***************************************************************************)
MaxMaxValue == 9
MaxKeys == 3
MaxThreshold == 2

(***************************************************************************)
(* Python results that are not values.                                     *)
(***************************************************************************)
Return(v) == [value |-> v]
Raise(e) == [raised |-> e]
Returned(res) == "value" \in DOMAIN res
Raised(res) == "raised" \in DOMAIN res
ValueError == Raise("ValueError")
NotRun == [pending |-> TRUE]
NoTable == <<>>

(***************************************************************************)
(* pymcl: the scalar field Fr.                                             *)
(***************************************************************************)
Fr == 0 .. (pymcl_r - 1)

\* pymcl.Fr(str(n)) for an integer n (negative n is reduced as well)
FrOf(n) == ((n % pymcl_r) + pymcl_r) % pymcl_r

FrAdd(a, b) == (a + b) % pymcl_r
FrSub(a, b) == FrOf(a - b)
FrNeg(a) == FrOf(0 - a)
FrMul(a, b) == (a * b) % pymcl_r
\* the inverse; of 0 it is 0, the value of the builds where a division by zero
\* returns (the calls below model the builds where it raises)
FrInv(a) == IF a = 0 THEN 0 ELSE CHOOSE y \in Fr : (a * y) % pymcl_r = 1
FrDiv(a, b) == FrMul(a, FrInv(b))

(***************************************************************************)
(* pymcl: the groups.  g1, g2 are the generators, Identity the neutral     *)
(* element (pymcl.g1 - pymcl.g1, base / base).                             *)
(***************************************************************************)
g1 == 1
g2 == 1
Identity == 0

GAdd(P, Q) == (P + Q) % pymcl_r
GSub(P, Q) == FrOf(P - Q)
GMul(P, k) == (P * k) % pymcl_r

GTMul(a, b) == (a + b) % pymcl_r
GTDiv(a, b) == FrOf(a - b)
GTPow(a, k) == (a * k) % pymcl_r

pairing(P, Q) == (P * Q) % pymcl_r

(***************************************************************************)
(* ecutils.py: baby-step-giant-step.                                       *)
(***************************************************************************)
\* math.isqrt
isqrt(n) == CHOOSE k \in 0 .. n : k * k <= n /\ (k + 1) * (k + 1) > n

\* the loop of build_baby_step_table from step j on: baby_steps[current] = j
RECURSIVE BabyStepLoop(_, _, _, _, _)
BabyStepLoop(tbl, current, j, m, b) ==
    IF j >= m THEN tbl
    ELSE BabyStepLoop([k \in (DOMAIN tbl) \cup {current} |->
                          IF k = current THEN j ELSE tbl[k]],
                      GTMul(current, b), j + 1, m, b)

\* a table one baby step short: m = isqrt(max_value), the + 1 forgotten
build_table_short(b, mv) ==
    LET m == isqrt(mv)
    IN  BabyStepLoop(<<>>, GTDiv(b, b), 0, m, b)

build_baby_step_table(b, mv) ==
    LET m == isqrt(mv) + 1
    IN  BabyStepLoop(<<>>, GTDiv(b, b), 0, m, b)

\* the giant-step loop of discrete_log from step i on
RECURSIVE GiantStepLoop(_, _, _, _, _)
GiantStepLoop(current, i, m, factor, tbl) ==
    IF i >= m THEN ValueError
    ELSE IF current \in DOMAIN tbl THEN Return(i * m + tbl[current])
    ELSE GiantStepLoop(GTMul(current, factor), i + 1, m, factor, tbl)

\* the giant-step loop of discrete_log over the steps lo .. hi - 1 alone
RECURSIVE ShardLoop(_, _, _, _, _, _)
ShardLoop(current, i, hi, m, factor, tbl) ==
    IF i >= hi THEN ValueError
    ELSE IF current \in DOMAIN tbl THEN Return(i * m + tbl[current])
    ELSE ShardLoop(GTMul(current, factor), i + 1, hi, m, factor, tbl)

\* discrete_log with its loop restricted to range(lo, hi): current starts at
\* value * factor ** lo
discrete_log_shard(value, b, tbl, mv, lo, hi) ==
    LET m == isqrt(mv) + 1
        factor == GTPow(b, FrOf(0 - m))
    IN  ShardLoop(GTMul(value, GTPow(factor, lo)), lo, hi, m, factor, tbl)

\* every i * m + baby_steps[current] that a step i of range(m) can return, the
\* return at the first of them left aside
GiantStepHits(value, b, tbl, mv) ==
    LET m == isqrt(mv) + 1
        factor == GTPow(b, FrOf(0 - m))
        current(i) == GTMul(value, GTPow(factor, i))
    IN  {i * m + tbl[current(i)] : i \in {k \in 0 .. (m - 1) : current(k) \in DOMAIN tbl}}

\* a search whose giant steps are one short: factor = base ** -(m - 1)
discrete_log_stride(value, b, tbl, mv) ==
    LET m == isqrt(mv) + 1
        factor == GTPow(b, FrOf(0 - (m - 1)))
    IN  GiantStepLoop(value, 0, m, factor, tbl)

\* a search with m = isqrt(max_value), the + 1 forgotten
discrete_log_short(value, b, tbl, mv) ==
    LET m == isqrt(mv)
        factor == GTPow(b, FrOf(0 - m))
    IN  GiantStepLoop(value, 0, m, factor, tbl)

\* The result is the integer i * m + baby_steps[current] that the code wraps
\* in pymcl.Fr(str(...)), or ValueError.
discrete_log(value, b, tbl, mv) ==
    LET m == isqrt(mv) + 1
        factor == GTPow(b, FrOf(0 - m))
    IN  GiantStepLoop(value, 0, m, factor, tbl)

(***************************************************************************)
(* pymcl.G1.hash and SHA-256 are fixed functions of the library.  G1.hash  *)
(* sends distinct messages to distinct elements other than the identity.   *)
(* Sha256Digest is the integer h_int read from the digest of repr(value);  *)
(* reduced mod pymcl_r it collides for two keys and is 0 for one.          *)
(***************************************************************************)
Messages == {"message", "wessage"}

G1Hash(message) == IF message = "message" THEN 2 ELSE 3

Sha256Digest(value) == <<17, 35, 33, 8, 19, 23, 27>>[value + 1]

(***************************************************************************)
(* hashtofr.py, ecutils.py: hash of a G2 element to Fr.                    *)
(***************************************************************************)
hash(value) == Sha256Digest(value) % pymcl_r

hash_g2_to_fr(value) == Sha256Digest(value) % pymcl_r

(***************************************************************************)
(* ecutils.py: polynomials.                                                *)
(***************************************************************************)
\* a power that takes 0 ** 0 for 0
RECURSIVE pow_fr_zero(_, _)
pow_fr_zero(b, exponent) ==
    IF exponent = 0 THEN (IF b = 0 THEN 0 ELSE 1)
    ELSE FrMul(pow_fr_zero(b, exponent - 1), b)

RECURSIVE pow_fr(_, _)
pow_fr(b, exponent) ==
    IF exponent = 0 THEN 1
    ELSE IF exponent % 2 = 0
         THEN LET half == pow_fr(b, exponent \div 2)
              IN  FrMul(half, half)
         ELSE LET half == pow_fr(b, (exponent - 1) \div 2)
              IN  FrMul(FrMul(half, half), b)

\* the loop of eval_polynomial from coefficient k on (coefficient k has index k-1
\* in the code, so its power is k-1)
RECURSIVE EvalLoop(_, _, _, _)
EvalLoop(result, value, coefficients, k) ==
    IF k > Len(coefficients) THEN result
    ELSE EvalLoop(FrAdd(result, FrMul(coefficients[k], pow_fr(value, k - 1))),
                  value, coefficients, k + 1)

\* an evaluation that drops the constant term: the loop starts at coefficient 1
eval_polynomial_no_constant(value, coefficients) == EvalLoop(0, value, coefficients, 2)

eval_polynomial(value, coefficients) == EvalLoop(0, value, coefficients, 1)

(***************************************************************************)
(* modbls.py                                                               *)
(***************************************************************************)
\* the loop of compute_li from j on
RECURSIVE LiLoop(_, _, _, _)
LiLoop(li, xi, i, j) ==
    IF j > Len(xi) THEN li
    ELSE IF i # j
         THEN LiLoop(FrMul(li, FrDiv(FrNeg(xi[j]), FrSub(xi[i], xi[j]))), xi, i, j + 1)
         ELSE LiLoop(li, xi, i, j + 1)

\* the loop of a compute_li that forgets to negate xi[j]
RECURSIVE LiLoopNoNeg(_, _, _, _)
LiLoopNoNeg(li, xi, i, j) ==
    IF j > Len(xi) THEN li
    ELSE IF i # j
         THEN LiLoopNoNeg(FrMul(li, FrDiv(xi[j], FrSub(xi[i], xi[j]))), xi, i, j + 1)
         ELSE LiLoopNoNeg(li, xi, i, j + 1)

compute_li_no_neg(xi, i) == LiLoopNoNeg(1, xi, i, 1)

\* a compute_li whose product runs over the xi before position i only
compute_li_preceding(xi, i) == LiLoop(1, SubSeq(xi, 1, i), i, 1)

compute_li(xi, i) == LiLoop(1, xi, i, 1)

\* key_gen with the random sk drawn
key_gen(sk) == [sk |-> sk, vk |-> GMul(g2, sk)]

sign(sk, message) == GMul(G1Hash(message), sk)

\* a verify that hashes a fixed message instead of the one given
verify_fixed_message(vk, message, sig) ==
    LET h == G1Hash("message")
    IN  pairing(sig, g2) = pairing(h, vk)

verify(vk, message, sig) ==
    LET h == G1Hash(message)
    IN  pairing(sig, g2) = pairing(h, vk)

\* the loop of agg_sigs from i on
RECURSIVE AggSigsLoop(_, _, _, _)
AggSigsLoop(agg, ss, xi, i) ==
    IF i > Len(xi) THEN agg
    ELSE AggSigsLoop(GAdd(agg, GMul(ss[i], compute_li(xi, i))), ss, xi, i + 1)

\* the plain BLS aggregate: the sum of the signatures, the weights li forgotten
RECURSIVE SumLoop(_, _, _)
SumLoop(agg, ss, i) ==
    IF i > Len(ss) THEN agg ELSE SumLoop(GAdd(agg, ss[i]), ss, i + 1)

agg_sigs_unweighted(ss, ver_keys) == SumLoop(GSub(g1, g1), ss, 1)

agg_sigs(ss, ver_keys) ==
    LET xi == [i \in 1 .. Len(ver_keys) |-> hash(ver_keys[i])]
    IN  AggSigsLoop(GSub(g1, g1), ss, xi, 1)

\* the loop of agg_verify from i on
RECURSIVE AggVerifyLoop(_, _, _, _, _)
AggVerifyLoop(rhs, messages, ver_keys, xi, i) ==
    IF i > Len(messages) THEN rhs
    ELSE LET h == G1Hash(messages[i])
             pair == pairing(h, ver_keys[i])
         IN  AggVerifyLoop(GTMul(rhs, GTPow(pair, compute_li(xi, i))),
                           messages, ver_keys, xi, i + 1)

\* an agg_verify whose product forgets the exponents compute_li(xi, i)
RECURSIVE ProductLoop(_, _, _, _)
ProductLoop(rhs, messages, ver_keys, i) ==
    IF i > Len(messages) THEN rhs
    ELSE ProductLoop(GTMul(rhs, pairing(G1Hash(messages[i]), ver_keys[i])),
                     messages, ver_keys, i + 1)

agg_verify_unweighted(agg, messages, ver_keys) ==
    IF Len(messages) # Len(ver_keys) THEN ValueError
    ELSE LET lhs == pairing(agg, g2)
             rhs == ProductLoop(pairing(GSub(g1, g1), GSub(g2, g2)),
                                messages, ver_keys, 1)
         IN  Return(lhs = rhs)

\* an agg_verify without the length check of its first statement: the loop
\* indexes ver_keys[i] for every message, an IndexError when there are more
\* messages than keys
agg_verify_unchecked(agg, messages, ver_keys) ==
    IF Len(messages) > Len(ver_keys) THEN Raise("IndexError")
    ELSE LET xi == [i \in 1 .. Len(ver_keys) |-> hash(ver_keys[i])]
             lhs == pairing(agg, g2)
             rhs == AggVerifyLoop(pairing(GSub(g1, g1), GSub(g2, g2)),
                                  messages, ver_keys, xi, 1)
         IN  Return(lhs = rhs)

agg_verify(agg, messages, ver_keys) ==
    IF Len(messages) # Len(ver_keys) THEN ValueError
    ELSE LET xi == [i \in 1 .. Len(ver_keys) |-> hash(ver_keys[i])]
             lhs == pairing(agg, g2)
             rhs == AggVerifyLoop(pairing(GSub(g1, g1), GSub(g2, g2)),
                                  messages, ver_keys, xi, 1)
         IN  Return(lhs = rhs)

(***************************************************************************)
(* swe.py.  encrypt takes its random draws as arguments: coefficients,     *)
(* alpha, r and the scalar hr of h = g2 * Fr.random().                     *)
(***************************************************************************)
\* 2 ** n
RECURSIVE Pow2(_)
Pow2(n) == IF n = 0 THEN 1 ELSE 2 * Pow2(n - 1)

encrypt(dec_threshold, ver_keys, target_message, messages, coefficients, alpha, r, hr) ==
    LET xi == [i \in 1 .. Len(ver_keys) |-> hash_g2_to_fr(ver_keys[i])]
        s == [i \in 1 .. Len(ver_keys) |-> eval_polynomial(xi[i], coefficients)]
        c == GMul(g2, r)
        a == [i \in 1 .. Len(messages) |-> GMul(c, alpha[i])]
        t == [i \in 1 .. Len(messages) |-> GMul(G1Hash(target_message), alpha[i])]
        h == GMul(g2, hr)
        c0 == GAdd(GMul(h, r), GMul(g2, coefficients[1]))
        c1 == [i \in 1 .. Len(ver_keys) |->
                  GAdd(GMul(ver_keys[i], r), GMul(g2, s[i]))]
        gt == pairing(g1, g2)
        c2 == [i \in 1 .. Len(messages) |->
                  GTMul(pairing(t[i], GMul(g2, coefficients[1])),
                        GTPow(gt, messages[i]))]
    IN  [h |-> h, c |-> c, c0 |-> c0, c1 |-> c1, c2 |-> c2, a |-> a, t |-> t]

\* the loop of decrypt over used_vk_indices from position idx on
RECURSIVE RecombineLoop(_, _, _, _, _)
RecombineLoop(c, c1, lag_coeffs, used_vk_indices, idx) ==
    IF idx > Len(used_vk_indices) THEN c
    ELSE RecombineLoop(GAdd(c, GMul(c1[used_vk_indices[idx]], lag_coeffs[idx])),
                       c1, lag_coeffs, used_vk_indices, idx + 1)

\* the element c that decrypt recombines from ct.c1 at used_vk_indices
RecombinedC(ct, ver_keys, used_vk_indices) ==
    LET xi == [k \in 1 .. Len(used_vk_indices) |->
                  hash_g2_to_fr(ver_keys[used_vk_indices[k]])]
        lag_coeffs == [k \in 1 .. Len(used_vk_indices) |-> compute_li(xi, k)]
    IN  RecombineLoop(GSub(g2, g2), ct.c1, lag_coeffs, used_vk_indices, 1)

\* a decrypt that leaves pairing(aggr_signature, a[i]) out of z[i]
decrypt_no_signature(ct, aggr_signature, ver_keys, used_vk_indices, msg_lengths, baby_steps_table) ==
    LET xi == [k \in 1 .. Len(used_vk_indices) |->
                  hash_g2_to_fr(ver_keys[used_vk_indices[k]])]
        lag_coeffs == [k \in 1 .. Len(used_vk_indices) |-> compute_li(xi, k)]
        c == RecombineLoop(GSub(g2, g2), ct.c1, lag_coeffs, used_vk_indices, 1)
        z == [i \in 1 .. Len(ct.c2) |-> GTDiv(ct.c2[i], pairing(ct.t[i], c))]
        gt == pairing(g1, g2)
        msg == [i \in 1 .. Len(z) |->
                   discrete_log(z[i], gt, baby_steps_table, Pow2(msg_lengths))]
    IN  IF \E i \in 1 .. Len(z) : Raised(msg[i]) THEN ValueError
        ELSE Return([i \in 1 .. Len(z) |-> msg[i].value])

decrypt(ct, aggr_signature, ver_keys, used_vk_indices, msg_lengths, baby_steps_table) ==
    LET xi == [k \in 1 .. Len(used_vk_indices) |->
                  hash_g2_to_fr(ver_keys[used_vk_indices[k]])]
        lag_coeffs == [k \in 1 .. Len(used_vk_indices) |-> compute_li(xi, k)]
        c == RecombineLoop(GSub(g2, g2), ct.c1, lag_coeffs, used_vk_indices, 1)
        z == [i \in 1 .. Len(ct.c2) |->
                 GTDiv(GTMul(ct.c2[i], pairing(aggr_signature, ct.a[i])),
                       pairing(ct.t[i], c))]
        gt == pairing(g1, g2)
        msg == [i \in 1 .. Len(z) |->
                   discrete_log(z[i], gt, baby_steps_table, Pow2(msg_lengths))]
    IN  IF \E i \in 1 .. Len(z) : Raised(msg[i]) THEN ValueError
        ELSE Return([i \in 1 .. Len(z) |-> msg[i].value])

(***************************************************************************)
(* What the specifications share.                                          *)
(***************************************************************************)
Min(a, b) == IF a < b THEN a ELSE b

VerKeys == [i \in 1 .. Len(keys) |-> keys[i].vk]

\* the strictly increasing index lists over 1 .. n (sorted lists of distinct indices)
SortedList(S) ==
    CHOOSE f \in [1 .. Cardinality(S) -> S] :
        \A i, j \in 1 .. Cardinality(S) : i < j => f[i] < f[j]
IndexLists(n) == {SortedList(S) : S \in (SUBSET (1 .. n)) \ {{}}}

Pick(seq, idxs) == [k \in 1 .. Len(idxs) |-> seq[idxs[k]]]
Exchange(seq, a, b) ==
    [k \in 1 .. Len(seq) |-> IF k = a THEN seq[b] ELSE IF k = b THEN seq[a] ELSE seq[k]]

DLIdle ==
    /\ max_value = 1
    /\ base = pairing(g1, g2)
    /\ baby_steps = NoTable
    /\ dl_x = 0
    /\ dl_out = NotRun

BLSIdle ==
    /\ sign_msgs = <<>>
    /\ sigs = <<>>
    /\ agg_sig = NotRun
    /\ av_in = NotRun
    /\ av_out = NotRun
    /\ sv_in = NotRun
    /\ sv_out = NotRun

\* no division by zero is reached where the x-coordinates are pairwise distinct
CallsIdle ==
    /\ fr_div_zero = "zero"
    /\ li_in = NotRun
    /\ li_out = NotRun
    /\ as_in = NotRun
    /\ shard_in = NotRun
    /\ shard_out = NotRun

SWEIdle ==
    /\ enc_in = NotRun
    /\ ctxt = NotRun
    /\ dec_in = NotRun
    /\ dec_out = NotRun

\* modbls.key_gen appends a key pair.  The key lists enumerated keep the data
\* model's invariant, the x-coordinates hash(vk) are pairwise distinct, and list
\* the keys by increasing sk: one list for each set of keys.
KeyGen ==
    \E sk \in Fr :
        /\ Len(keys) < MaxKeys
        /\ sigs = <<>>
        /\ enc_in = NotRun
        /\ keys # <<>> => keys[Len(keys)].sk < sk
        /\ \A i \in 1 .. Len(keys) : hash(keys[i].vk) # hash(key_gen(sk).vk)
        /\ keys' = Append(keys, key_gen(sk))
        /\ UNCHANGED <<pymcl_r, call_vars, dl_vars, bls_vars, swe_vars>>

(***************************************************************************)
(* SpecDL: a table is built for (base, max_value) and values base ** x     *)
(* are searched.                                                           *)
(***************************************************************************)
DLOrders == {3, 7, 11, 13}

InitDL ==
    /\ pymcl_r \in DLOrders
    /\ max_value \in 1 .. MaxMaxValue
    /\ base \in 1 .. (pymcl_r - 1)
    /\ baby_steps = NoTable
    /\ dl_x = 0
    /\ dl_out = NotRun
    /\ keys = <<>>
    /\ BLSIdle
    /\ CallsIdle
    /\ SWEIdle

BuildTable ==
    /\ baby_steps = NoTable
    /\ baby_steps' = build_baby_step_table(base, max_value)
    /\ UNCHANGED <<pymcl_r, call_vars, max_value, base, dl_x, dl_out, keys, bls_vars, swe_vars>>

DiscreteLog(x) ==
    /\ baby_steps # NoTable
    /\ dl_x' = x
    /\ dl_out' = discrete_log(GTPow(base, x), base, baby_steps, max_value)
    /\ UNCHANGED <<pymcl_r, call_vars, max_value, base, baby_steps, keys, bls_vars, swe_vars>>

SolveDL == \E x \in Fr : DiscreteLog(x)

NextDL == BuildTable \/ SolveDL

SpecDL == InitDL /\ [][NextDL]_vars

(***************************************************************************)
(* SpecBLS: keys are generated, every key signs a message, the signatures  *)
(* are verified one by one or aggregated and the aggregate verified        *)
(* against the lists aggregated or against altered lists.                  *)
(***************************************************************************)
BLSOrders == {7}

InitBLS ==
    /\ pymcl_r \in BLSOrders
    /\ DLIdle
    /\ keys = <<>>
    /\ BLSIdle
    /\ CallsIdle
    /\ SWEIdle

SignAll ==
    /\ keys # <<>>
    /\ sigs = <<>>
    /\ \E ms \in [1 .. Len(keys) -> Messages] :
        /\ sign_msgs' = ms
        /\ sigs' = [i \in 1 .. Len(keys) |-> sign(keys[i].sk, ms[i])]
        /\ UNCHANGED <<pymcl_r, call_vars, dl_vars, keys, agg_sig, av_in, av_out, sv_in, sv_out,
                       swe_vars>>

Verify ==
    /\ sigs # <<>>
    /\ agg_sig = NotRun
    /\ sv_in = NotRun
    /\ \E i \in 1 .. Len(keys), j \in 1 .. Len(keys), m \in Messages :
        /\ sv_in' = [signer |-> i, key |-> j, message |-> m]
        /\ sv_out' = Return(verify(keys[j].vk, m, sigs[i]))
        /\ UNCHANGED <<pymcl_r, call_vars, dl_vars, keys, sign_msgs, sigs, agg_sig, av_in, av_out,
                       swe_vars>>

Aggregate ==
    /\ sigs # <<>>
    /\ agg_sig = NotRun
    /\ sv_in = NotRun
    /\ agg_sig' = Return(agg_sigs(sigs, VerKeys))
    /\ UNCHANGED <<pymcl_r, call_vars, dl_vars, keys, sign_msgs, sigs, av_in, av_out, sv_in, sv_out,
                   swe_vars>>

\* the lists agg_verify is called with: those aggregated ("same"), two messages or
\* two keys exchanged between positions a and b, the message at a replaced by the
\* other message, both lists cut down to the positions of sub, or the first a
\* messages with the first b keys, a # b ("mismatch")
Alterations ==
    LET n == Len(keys)
        all == [k \in 1 .. n |-> k]
        none == [kind |-> "same", a |-> 0, b |-> 0, sub |-> all,
                 messages |-> sign_msgs, ver_keys |-> VerKeys]
    IN  {none}
        \cup {[none EXCEPT !.kind = "swap_msgs", !.a = a, !.b = b,
                           !.messages = Exchange(sign_msgs, a, b)] :
                 a \in 1 .. n, b \in 1 .. n}
        \cup {[none EXCEPT !.kind = "swap_keys", !.a = a, !.b = b,
                           !.ver_keys = Exchange(VerKeys, a, b)] :
                 a \in 1 .. n, b \in 1 .. n}
        \cup {[none EXCEPT !.kind = "replace_msg", !.a = a,
                           !.messages = [sign_msgs EXCEPT ![a] =
                               CHOOSE m \in Messages : m # sign_msgs[a]]] :
                 a \in 1 .. n}
        \cup {[none EXCEPT !.kind = "truncate", !.sub = sub,
                           !.messages = Pick(sign_msgs, sub),
                           !.ver_keys = Pick(VerKeys, sub)] :
                 sub \in IndexLists(n) \ {all}}
        \cup {[none EXCEPT !.kind = "mismatch", !.a = ab[1], !.b = ab[2],
                           !.messages = SubSeq(sign_msgs, 1, ab[1]),
                           !.ver_keys = SubSeq(VerKeys, 1, ab[2])] :
                 ab \in {x \in (0 .. n) \X (0 .. n) : x[1] # x[2]}}

AggVerify ==
    /\ agg_sig # NotRun
    /\ av_in = NotRun
    /\ \E alt \in Alterations :
        /\ alt.kind \in {"swap_msgs", "swap_keys"} => alt.a < alt.b
        /\ av_in' = alt
        /\ av_out' = agg_verify(agg_sig.value, alt.messages, alt.ver_keys)
        /\ UNCHANGED <<pymcl_r, call_vars, dl_vars, keys, sign_msgs, sigs, agg_sig, sv_in, sv_out,
                       swe_vars>>

NextBLS == KeyGen \/ SignAll \/ Verify \/ Aggregate \/ AggVerify

SpecBLS == InitBLS /\ [][NextBLS]_vars

(***************************************************************************)
(* SpecSWE: after the setup (the baby-step table for gt and                *)
(* 2 ** msg_lengths, the keys), messages are encrypted, a subset of the    *)
(* keys signs the target message, the signatures are aggregated and the    *)
(* ciphertext is decrypted.                                                *)
(***************************************************************************)
SWEOrders == {5}
TargetMessage == "message"
\* the scalars h = g2 * Fr.random() is drawn from (no operation reads h or c0)
HScalars == {3}
\* the msg_lengths the setup chooses among, and the numbers of plaintexts
\* handed to encrypt
MsgLengthsChoices == {1}
MessageCounts == {1}
\* the msg_lengths of this run: the table was built for 2 ** msg_lengths
MsgLengths == CHOOSE l \in MsgLengthsChoices : Pow2(l) = max_value

InitSWE ==
    /\ pymcl_r \in SWEOrders
    /\ max_value \in {Pow2(l) : l \in MsgLengthsChoices}
    /\ base = pairing(g1, g2)
    /\ baby_steps = build_baby_step_table(pairing(g1, g2), max_value)
    /\ dl_x = 0
    /\ dl_out = NotRun
    /\ keys = <<>>
    /\ BLSIdle
    /\ CallsIdle
    /\ SWEIdle

Encrypt ==
    /\ keys # <<>>
    /\ enc_in = NotRun
    /\ \E dec_threshold \in 1 .. Min(Len(keys), MaxThreshold) :
       \E num \in MessageCounts :
       \E messages \in [1 .. num -> 0 .. (Pow2(MsgLengths) - 1)] :
       \E coefficients \in [1 .. dec_threshold -> Fr] :
       \E alpha \in [1 .. num -> Fr] :
       \E r \in Fr, hr \in HScalars :
        /\ enc_in' = [dec_threshold |-> dec_threshold, target_message |-> TargetMessage,
                      messages |-> messages, coefficients |-> coefficients,
                      alpha |-> alpha, r |-> r]
        /\ ctxt' = encrypt(dec_threshold, VerKeys, TargetMessage, messages,
                           coefficients, alpha, r, hr)
        /\ UNCHANGED <<pymcl_r, call_vars, dl_vars, keys, bls_vars, dec_in, dec_out>>

\* The keys at the positions of signers sign the target message, agg_sigs
\* aggregates their signatures (with their keys), and decrypt is called with that
\* aggregate and used_vk_indices: the signers, or (for fewer signers than the
\* threshold) all keys.
Decrypt ==
    /\ ctxt # NotRun
    /\ dec_in = NotRun
    /\ \E signers \in IndexLists(Len(keys)) :
       \E used_vk_indices \in {signers} \cup
               (IF Len(signers) < enc_in.dec_threshold
                THEN {[k \in 1 .. Len(keys) |-> k]} ELSE {}) :
        LET ss == [k \in 1 .. Len(signers) |->
                      sign(keys[signers[k]].sk, enc_in.target_message)]
            aggr_signature == agg_sigs(ss, Pick(VerKeys, signers))
        IN  /\ dec_in' = [signers |-> signers, used_vk_indices |-> used_vk_indices,
                          aggr_signature |-> aggr_signature]
            /\ dec_out' = decrypt(ctxt, aggr_signature, VerKeys, used_vk_indices,
                                  MsgLengths, baby_steps)
            /\ UNCHANGED <<pymcl_r, call_vars, dl_vars, keys, bls_vars, enc_in, ctxt>>

NextSWE == KeyGen \/ Encrypt \/ Decrypt

SpecSWE == InitSWE /\ [][NextSWE]_vars

(***************************************************************************)
(* Calls with a key listed twice.  compute_li divides by xi[i] - xi[j]     *)
(* (modbls.py:91) and checks nothing before; what pymcl does on a          *)
(* division by zero is in no file of src/, so it is a choice made at the   *)
(* start: the quotient is 0, or the library raises an error of its own.    *)
(***************************************************************************)
DivZeroOutcomes == {"zero", "raise"}
ZeroDivisionError == Raise("ZeroDivisionError")

\* compute_li(xi, i) reaches a division by zero
DividesByZero(xi, i) == \E j \in 1 .. Len(xi) : j # i /\ xi[j] = xi[i]
\* some compute_li(xi, i), i < count, does
SomeDividesByZero(xi, count) == \E i \in 1 .. count : DividesByZero(xi, i)

\* the calls as Python runs them: the library's error, where it raises one,
\* leaves the function at the first division by zero
compute_li_call(xi, i) ==
    IF fr_div_zero = "raise" /\ DividesByZero(xi, i) THEN ZeroDivisionError
    ELSE Return(compute_li(xi, i))

agg_sigs_call(ss, ver_keys) ==
    LET xi == [i \in 1 .. Len(ver_keys) |-> hash(ver_keys[i])]
    IN  IF fr_div_zero = "raise" /\ SomeDividesByZero(xi, Len(ver_keys))
        THEN ZeroDivisionError
        ELSE Return(agg_sigs(ss, ver_keys))

agg_verify_call(agg, messages, ver_keys) ==
    LET xi == [i \in 1 .. Len(ver_keys) |-> hash(ver_keys[i])]
    IN  IF Len(messages) # Len(ver_keys) THEN ValueError
        ELSE IF fr_div_zero = "raise" /\ SomeDividesByZero(xi, Len(messages))
        THEN ZeroDivisionError
        ELSE agg_verify(agg, messages, ver_keys)

decrypt_call(ct, aggr_signature, ver_keys, used_vk_indices, msg_lengths, baby_steps_table) ==
    LET xi == [k \in 1 .. Len(used_vk_indices) |->
                  hash_g2_to_fr(ver_keys[used_vk_indices[k]])]
    IN  IF fr_div_zero = "raise" /\ SomeDividesByZero(xi, Len(used_vk_indices))
        THEN ZeroDivisionError
        ELSE decrypt(ct, aggr_signature, ver_keys, used_vk_indices, msg_lengths,
                     baby_steps_table)

\* the lists of positions of keys, up to MaxKeys long, and those that list a
\* position twice
Listings(n) == UNION {[1 .. k -> 1 .. n] : k \in 1 .. MaxKeys}
HasRepeat(idxs) == \E a, b \in 1 .. Len(idxs) : a < b /\ idxs[a] = idxs[b]
Repeated(n) == {idxs \in Listings(n) : HasRepeat(idxs)}
\* the positions a listing names, each once, in increasing order
Distinct(idxs) == SortedList({idxs[k] : k \in 1 .. Len(idxs)})
\* the signatures of the target message by the keys at the positions idxs
TargetSigs(idxs) == [k \in 1 .. Len(idxs) |-> sign(keys[idxs[k]].sk, TargetMessage)]

(***************************************************************************)
(* SpecDup: keys are generated, messages encrypted, and compute_li,        *)
(* agg_sigs, agg_verify and decrypt are called with a list that names a    *)
(* key twice.                                                              *)
(***************************************************************************)
DupOrders == {3}

InitDup ==
    /\ pymcl_r \in DupOrders
    /\ max_value \in {Pow2(l) : l \in MsgLengthsChoices}
    /\ base = pairing(g1, g2)
    /\ baby_steps = build_baby_step_table(pairing(g1, g2), max_value)
    /\ dl_x = 0
    /\ dl_out = NotRun
    /\ keys = <<>>
    /\ BLSIdle
    /\ SWEIdle
    /\ fr_div_zero \in DivZeroOutcomes
    /\ li_in = NotRun
    /\ li_out = NotRun
    /\ as_in = NotRun
    /\ shard_in = NotRun
    /\ shard_out = NotRun

\* each behaviour makes one of the calls that need no ciphertext, or encrypts
\* and calls decrypt
NoCallYet == li_in = NotRun /\ as_in = NotRun /\ av_in = NotRun

KeyGenDup == NoCallYet /\ KeyGen

EncryptDup == NoCallYet /\ Encrypt

ComputeLiRepeated ==
    /\ keys # <<>>
    /\ enc_in = NotRun
    /\ NoCallYet
    /\ \E idxs \in Repeated(Len(keys)) :
       \E i \in 1 .. Len(idxs) :
        LET xi == [k \in 1 .. Len(idxs) |-> hash(VerKeys[idxs[k]])]
        IN  /\ li_in' = [xi |-> xi, i |-> i]
            /\ li_out' = compute_li_call(xi, i)
            /\ UNCHANGED <<pymcl_r, dl_vars, keys, bls_vars, swe_vars, fr_div_zero, as_in,
                       shard_in, shard_out>>

AggSigsRepeated ==
    /\ keys # <<>>
    /\ enc_in = NotRun
    /\ NoCallYet
    /\ \E idxs \in Repeated(Len(keys)) :
        /\ as_in' = [positions |-> idxs]
        /\ agg_sig' = agg_sigs_call(TargetSigs(idxs), Pick(VerKeys, idxs))
        /\ UNCHANGED <<pymcl_r, dl_vars, keys, sign_msgs, sigs, av_in, av_out, sv_in,
                       sv_out, swe_vars, fr_div_zero, li_in, li_out, shard_in, shard_out>>

\* agg_verify is handed the aggregate of the signatures of the keys named, each
\* once, and the list that names one twice
AggVerifyRepeated ==
    /\ keys # <<>>
    /\ enc_in = NotRun
    /\ NoCallYet
    /\ \E idxs \in Repeated(Len(keys)) :
        LET once == Distinct(idxs)
            agg == agg_sigs(TargetSigs(once), Pick(VerKeys, once))
            messages == [k \in 1 .. Len(idxs) |-> TargetMessage]
        IN  /\ av_in' = [kind |-> "repeated", a |-> 0, b |-> 0, sub |-> idxs,
                         messages |-> messages, ver_keys |-> Pick(VerKeys, idxs)]
            /\ av_out' = agg_verify_call(agg, messages, Pick(VerKeys, idxs))
            /\ UNCHANGED <<pymcl_r, dl_vars, keys, sign_msgs, sigs, agg_sig, sv_in,
                           sv_out, swe_vars, call_vars>>

\* decrypt is handed the aggregate of the signatures of the keys named, each
\* once, and used_vk_indices that names one twice
DecryptRepeated ==
    /\ ctxt # NotRun
    /\ dec_in = NotRun
    /\ \E used_vk_indices \in Repeated(Len(keys)) :
        LET once == Distinct(used_vk_indices)
            aggr_signature == agg_sigs(TargetSigs(once), Pick(VerKeys, once))
        IN  /\ dec_in' = [signers |-> once, used_vk_indices |-> used_vk_indices,
                          aggr_signature |-> aggr_signature]
            /\ dec_out' = decrypt_call(ctxt, aggr_signature, VerKeys, used_vk_indices,
                                       MsgLengths, baby_steps)
            /\ UNCHANGED <<pymcl_r, dl_vars, keys, bls_vars, enc_in, ctxt, call_vars>>

NextDup ==
    \/ KeyGenDup
    \/ EncryptDup
    \/ ComputeLiRepeated
    \/ AggSigsRepeated
    \/ AggVerifyRepeated
    \/ DecryptRepeated

SpecDup == InitDup /\ [][NextDup]_vars

(***************************************************************************)
(* SpecOver: encrypt is called with a threshold above the number of keys.  *)
(***************************************************************************)
OverOrders == {3}

\* how far above len(ver_keys) the threshold lies
Excess == {1, 2}

InitOver ==
    /\ pymcl_r \in OverOrders
    /\ max_value \in {Pow2(l) : l \in MsgLengthsChoices}
    /\ base = pairing(g1, g2)
    /\ baby_steps = build_baby_step_table(pairing(g1, g2), max_value)
    /\ dl_x = 0
    /\ dl_out = NotRun
    /\ keys = <<>>
    /\ BLSIdle
    /\ CallsIdle
    /\ SWEIdle

\* encrypt(dec_threshold, ver_keys, target_message, messages) with
\* dec_threshold > len(ver_keys); ver_keys may be empty.
EncryptOver ==
    /\ enc_in = NotRun
    /\ \E excess \in Excess :
       \E num \in MessageCounts :
       \E messages \in [1 .. num -> 0 .. (Pow2(MsgLengths) - 1)] :
       \E coefficients \in [1 .. (Len(keys) + excess) -> Fr] :
       \E alpha \in [1 .. num -> Fr] :
       \E r \in Fr, hr \in HScalars :
        /\ enc_in' = [dec_threshold |-> Len(keys) + excess,
                      target_message |-> TargetMessage,
                      messages |-> messages, coefficients |-> coefficients,
                      alpha |-> alpha, r |-> r]
        /\ ctxt' = encrypt(Len(keys) + excess, VerKeys, TargetMessage, messages,
                           coefficients, alpha, r, hr)
        /\ UNCHANGED <<pymcl_r, call_vars, dl_vars, keys, bls_vars, dec_in, dec_out>>

NextOver == KeyGen \/ EncryptOver

SpecOver == InitOver /\ [][NextOver]_vars

(***************************************************************************)
(* SpecOrder: keys are generated, messages encrypted, and some of the keys *)
(* sign, aggregate and decrypt, listed in any order.                       *)
(***************************************************************************)
OrderOrders == {5}

\* the lists that name each of some positions of 1 .. n once, in any order
Arrangements(n) == {idxs \in Listings(n) : ~HasRepeat(idxs)}

InitOrder ==
    /\ pymcl_r \in OrderOrders
    /\ max_value \in {Pow2(l) : l \in MsgLengthsChoices}
    /\ base = pairing(g1, g2)
    /\ baby_steps = build_baby_step_table(pairing(g1, g2), max_value)
    /\ dl_x = 0
    /\ dl_out = NotRun
    /\ keys = <<>>
    /\ BLSIdle
    /\ CallsIdle
    /\ SWEIdle

\* the values that r and every alpha[i] of encrypt take in this specification
OrderBlindings == {2}
OrderAlphas == {3}

EncryptOrder ==
    /\ Encrypt
    /\ enc_in'.r \in OrderBlindings
    /\ \A i \in 1 .. Len(enc_in'.alpha) : enc_in'.alpha[i] \in OrderAlphas

\* The keys at the positions used sign the target message in that order,
\* agg_sigs aggregates the signatures with the keys in that order, and decrypt
\* is called with the aggregate and used_vk_indices in that order.
DecryptArranged ==
    /\ ctxt # NotRun
    /\ dec_in = NotRun
    /\ \E used \in Arrangements(Len(keys)) :
        LET aggr_signature == agg_sigs(TargetSigs(used), Pick(VerKeys, used))
        IN  /\ dec_in' = [signers |-> used, used_vk_indices |-> used,
                          aggr_signature |-> aggr_signature]
            /\ dec_out' = decrypt(ctxt, aggr_signature, VerKeys, used,
                                  MsgLengths, baby_steps)
            /\ UNCHANGED <<pymcl_r, call_vars, dl_vars, keys, bls_vars, enc_in, ctxt>>

NextOrder == KeyGen \/ EncryptOrder \/ DecryptArranged

SpecOrder == InitOrder /\ [][NextOrder]_vars

(***************************************************************************)
(* SpecShard: next to the search of the whole range, one part [lo, hi) of  *)
(* the giant steps is searched for the same value.                         *)
(***************************************************************************)
ShardOrders == {7, 11, 13}

InitShard ==
    /\ pymcl_r \in ShardOrders
    /\ max_value \in 1 .. MaxMaxValue
    /\ base \in 1 .. (pymcl_r - 1)
    /\ baby_steps = NoTable
    /\ dl_x = 0
    /\ dl_out = NotRun
    /\ keys = <<>>
    /\ BLSIdle
    /\ CallsIdle
    /\ SWEIdle

ShardSearch(x, lo, hi) ==
    /\ baby_steps # NoTable
    /\ shard_in = NotRun
    /\ dl_x' = x
    /\ dl_out' = discrete_log(GTPow(base, x), base, baby_steps, max_value)
    /\ shard_in' = [x |-> x, lo |-> lo, hi |-> hi]
    /\ shard_out' = discrete_log_shard(GTPow(base, x), base, baby_steps, max_value, lo, hi)
    /\ UNCHANGED <<pymcl_r, fr_div_zero, li_in, li_out, as_in, max_value, base,
                   baby_steps, keys, bls_vars, swe_vars>>

SolveShard ==
    \E x \in Fr :
    \E lo \in 0 .. isqrt(max_value) :
    \E hi \in (lo + 1) .. (isqrt(max_value) + 1) :
        ShardSearch(x, lo, hi)

NextShard == BuildTable \/ SolveShard

SpecShard == InitShard /\ [][NextShard]_vars

(***************************************************************************)
(* Properties of the discrete-log solver (SpecDL).                         *)
(***************************************************************************)
\* ceil(sqrt(n)) for n >= 1
CeilSqrt(n) == CHOOSE k \in 1 .. n : k * k >= n /\ (k - 1) * (k - 1) < n

DLRan == dl_out # NotRun

\* C3: with a group order above max_value, discrete_log(base ** x, base, table,
\* max_value) returns x for every 0 <= x < max_value, perfect square or not.
C3_DiscreteLogComplete ==
    (DLRan /\ pymcl_r > max_value /\ dl_x < max_value) => dl_out = Return(dl_x)

\* C3 witness: the last value below a perfect-square bound was found.
C3_Witness ==
    /\ DLRan
    /\ pymcl_r > max_value
    /\ max_value = 9
    /\ base = 2
    /\ dl_x = max_value - 1
    /\ dl_out = Return(dl_x)

\* the whole range i * m + j the search covers lies below the group order
OrderFarLarger == pymcl_r > (isqrt(max_value) + 1) * (isqrt(max_value) + 1)

\* C4: with a group order far above max_value, discrete_log raises for
\* x = max_value and never returns a value >= max_value.
C4_NotFoundAtBound ==
    (DLRan /\ OrderFarLarger) =>
        /\ dl_x = max_value => dl_out = ValueError
        /\ Returned(dl_out) => dl_out.value < max_value

\* C5: with a group order above max_value, the table holds base ** j |-> j for
\* every j below ceil(sqrt(max_value)).
C5_BabyStepComplete ==
    (baby_steps # NoTable /\ pymcl_r > max_value) =>
        \A j \in 0 .. (CeilSqrt(max_value) - 1) :
            /\ GTPow(base, j) \in DOMAIN baby_steps
            /\ baby_steps[GTPow(base, j)] = j

\* C5 witness: a table built for a bound that is no perfect square.
C5_Witness ==
    /\ baby_steps # NoTable
    /\ pymcl_r > max_value
    /\ max_value = 5
    /\ base = 2
    /\ baby_steps[GTPow(base, 2)] = 2

(***************************************************************************)
(* Properties of the modified BLS scheme (SpecBLS).                        *)
(***************************************************************************)
AVRan == av_out # NotRun
SVRan == sv_out # NotRun

\* the x-coordinates of the keys, and the Lagrange weight of key i among all keys
XS == [i \in 1 .. Len(keys) |-> hash(keys[i].vk)]
AllKeys == [k \in 1 .. Len(keys) |-> k]
Weight(i) == compute_li(XS, i)

\* sum over k >= from of H(sign_msgs[i]) * sk_i * (weight of key i among the keys
\* at the positions sub), i = sub[k]: the logarithm of the aggregate of the
\* signatures at the positions sub
RECURSIVE WeightedSum(_, _)
WeightedSum(sub, from) ==
    IF from > Len(sub) THEN 0
    ELSE FrAdd(FrMul(FrMul(G1Hash(sign_msgs[sub[from]]), keys[sub[from]].sk),
                     compute_li(Pick(XS, sub), from)),
               WeightedSum(sub, from + 1))

\* C6: the aggregate of honest signatures verifies against the messages and keys
\* aggregated, whether the messages are all equal or differ.
C6_AggVerifyAccepts ==
    (AVRan /\ av_in.kind = "same") => av_out = Return(TRUE)

\* C6 witness: three keys, not all on the same message, aggregated and verified.
C6_Witness ==
    /\ AVRan
    /\ av_in.kind = "same"
    /\ Len(keys) = 3
    /\ sign_msgs[1] # sign_msgs[2]
    /\ av_out = Return(TRUE)

\* C7 as claimed: agg_verify returns false whenever two distinct messages or two
\* keys are exchanged between positions, one message is replaced, or both lists
\* are cut down to a strict non-empty subset.  (Stated for keys with sk # 0 and
\* x-coordinate # 0: it fails for those already.)
C7_RejectsAltered ==
    (/\ AVRan
     /\ \A i \in 1 .. Len(keys) : keys[i].sk # 0 /\ XS[i] # 0
     /\ \/ av_in.kind = "swap_msgs" /\ sign_msgs[av_in.a] # sign_msgs[av_in.b]
        \/ av_in.kind \in {"swap_keys", "replace_msg", "truncate"})
    => av_out = Return(FALSE)

\* C7 amended: agg_verify accepts an altered list exactly when the weighted sum
\* is unchanged.  Exchanging positions a and b (messages or keys) is accepted
\* iff both signed the same message or sk_a * L_a = sk_b * L_b; replacing the
\* message at a iff sk_a * L_a = 0; cutting down to the positions sub iff the
\* weighted sum over sub equals the one over all keys.
C7_RejectsUnlessSameSum ==
    AVRan =>
        /\ av_in.kind \in {"swap_msgs", "swap_keys"} =>
              av_out = Return(\/ sign_msgs[av_in.a] = sign_msgs[av_in.b]
                              \/ FrMul(keys[av_in.a].sk, Weight(av_in.a))
                                 = FrMul(keys[av_in.b].sk, Weight(av_in.b)))
        /\ av_in.kind = "replace_msg" =>
              av_out = Return(FrMul(keys[av_in.a].sk, Weight(av_in.a)) = 0)
        /\ av_in.kind = "truncate" =>
              av_out = Return(WeightedSum(av_in.sub, 1) = WeightedSum(AllKeys, 1))

\* C7 witness: two distinct messages exchanged, and the aggregate rejected.
C7_Witness ==
    /\ AVRan
    /\ av_in.kind = "swap_msgs"
    /\ sign_msgs[av_in.a] # sign_msgs[av_in.b]
    /\ av_out = Return(FALSE)

\* C8 as claimed: verify accepts the signature under its key and message, and
\* rejects it under another message and under another key pair's vk.
C8_SignatureCorrect ==
    SVRan =>
        LET same_key == sv_in.key = sv_in.signer
            same_msg == sv_in.message = sign_msgs[sv_in.signer]
        IN  /\ same_key /\ same_msg => sv_out = Return(TRUE)
            /\ same_key /\ ~same_msg => sv_out = Return(FALSE)
            /\ ~same_key /\ same_msg => sv_out = Return(FALSE)

\* C8 amended: as claimed, except that under another message the signature is
\* rejected iff sk # 0 (for sk = 0 the key and the signature are the identity,
\* and every message verifies).
C8_SignatureCorrectNonzero ==
    SVRan =>
        LET same_key == sv_in.key = sv_in.signer
            same_msg == sv_in.message = sign_msgs[sv_in.signer]
        IN  /\ same_key /\ same_msg => sv_out = Return(TRUE)
            /\ same_key /\ ~same_msg => sv_out = Return(keys[sv_in.signer].sk = 0)
            /\ ~same_key /\ same_msg => sv_out = Return(FALSE)

\* C8 witness: a signature of a key with sk # 0 rejected under another message.
C8_Witness ==
    /\ SVRan
    /\ sv_in.key = sv_in.signer
    /\ sv_in.message # sign_msgs[sv_in.signer]
    /\ keys[sv_in.signer].sk # 0
    /\ sv_out = Return(FALSE)

\* C11: agg_verify raises ValueError and returns no boolean whenever the lists
\* of messages and of keys differ in length, in either direction, an empty list
\* included.
C11_LengthMismatchRaises ==
    (AVRan /\ Len(av_in.messages) # Len(av_in.ver_keys)) => av_out = ValueError

\* C11 witness: two messages and one key (more messages than keys) raised.
C11_Witness ==
    /\ AVRan
    /\ Len(av_in.messages) = 2
    /\ Len(av_in.ver_keys) = 1
    /\ av_out = ValueError

(***************************************************************************)
(* Properties of the witness encryption (SpecSWE).                         *)
(***************************************************************************)
EncRan == enc_in # NotRun
DecRan == dec_out # NotRun

\* the shares s[i] that encrypt computes, and their recombination over the
\* positions sub: the sum over k >= from of compute_li(xs of sub, k) * s[sub[k]]
Shares ==
    [i \in 1 .. Len(keys) |->
        eval_polynomial(hash_g2_to_fr(keys[i].vk), enc_in.coefficients)]

RECURSIVE Recombined(_, _)
Recombined(sub, from) ==
    IF from > Len(sub) THEN 0
    ELSE FrAdd(FrMul(compute_li(Pick(XS, sub), from), Shares[sub[from]]),
               Recombined(sub, from + 1))

\* C1: for 1 <= t <= n, keys with distinct x-coordinates and plaintexts below
\* 2 ** msg_lengths, whatever encrypt draws: decrypt with the aggregate of any t
\* signers of the target message and used_vk_indices = those signers returns
\* the plaintexts.
C1_ThresholdCorrect ==
    (/\ DecRan
     /\ Len(dec_in.signers) = enc_in.dec_threshold
     /\ dec_in.used_vk_indices = dec_in.signers)
    => dec_out = Return(enc_in.messages)

\* C1 witness: two of three keys (not the first two) opened a ciphertext of
\* threshold 2 whose polynomial has a non-zero leading coefficient.
C1_Witness ==
    /\ DecRan
    /\ Len(keys) = 3
    /\ enc_in.dec_threshold = 2
    /\ enc_in.coefficients[2] # 0
    /\ dec_in.signers = <<1, 3>>
    /\ dec_in.used_vk_indices = dec_in.signers
    /\ enc_in.messages = <<1>>
    /\ dec_out = Return(<<1>>)

\* C2: more signers than the threshold open the ciphertext as well.
C2_LargerQuorumOpens ==
    (/\ DecRan
     /\ Len(dec_in.signers) > enc_in.dec_threshold
     /\ dec_in.used_vk_indices = dec_in.signers)
    => dec_out = Return(enc_in.messages)

\* C2 witness: all three keys opened a ciphertext of threshold 2.
C2_Witness ==
    /\ DecRan
    /\ enc_in.dec_threshold = 2
    /\ enc_in.coefficients[2] # 0
    /\ dec_in.signers = <<1, 2, 3>>
    /\ dec_in.used_vk_indices = dec_in.signers
    /\ enc_in.messages = <<1>>
    /\ dec_out = Return(<<1>>)

\* C9: for the polynomial encrypt drew and its shares, the Lagrange-weighted
\* sum of the shares of any t keys is the secret coefficients[0], also when one
\* of the x-coordinates is 0.  (S is the subset of keys the Decrypt step drew;
\* it draws every non-empty subset.)
C9_LagrangeIdentity ==
    (DecRan /\ Len(dec_in.signers) = enc_in.dec_threshold)
    => Recombined(dec_in.signers, 1) = enc_in.coefficients[1]

\* C9 witness: a polynomial of degree 1 shared among three keys, recombined from
\* the shares of the last two, one of them at x-coordinate 0.
C9_Witness ==
    /\ DecRan
    /\ Len(keys) = 3
    /\ enc_in.dec_threshold = 2
    /\ enc_in.coefficients[2] # 0
    /\ dec_in.signers = <<2, 3>>
    /\ \E k \in {2, 3} : XS[k] = 0
    /\ Recombined(dec_in.signers, 1) = enc_in.coefficients[1]

\* t = n = 2 and the signature of a single key aggregated
Undersized ==
    /\ DecRan
    /\ Len(keys) = 2
    /\ enc_in.dec_threshold = 2
    /\ Len(dec_in.signers) = 1

\* C10 as claimed: with t = n = 2 and one key's signature alone, decrypt never
\* returns the plaintexts, whatever encrypt draws.  (Stated for keys with
\* sk # 0 and x-coordinate # 0 and for draws alpha # 0, r # 0, coefficients[0]
\* # 0: it fails for those already.)
C10_UndersizedNeverOpens ==
    (/\ Undersized
     /\ \A i \in 1 .. Len(keys) : keys[i].sk # 0 /\ XS[i] # 0
     /\ \A i \in 1 .. Len(enc_in.alpha) : enc_in.alpha[i] # 0
     /\ enc_in.r # 0
     /\ enc_in.coefficients[1] # 0)
    => dec_out # Return(enc_in.messages)

\* the draws for which the pad of plaintext i cancels although one key signed:
\* alpha_i = 0, the signer's x-coordinate is 0, or the leading coefficient is 0
\* (used_vk_indices = the signer), r = 0 (used_vk_indices = both keys)
PadCancels(i) ==
    \/ enc_in.alpha[i] = 0
    \/ XS[dec_in.signers[1]] = 0
    \/ dec_in.used_vk_indices = dec_in.signers /\ enc_in.coefficients[2] = 0
    \/ dec_in.used_vk_indices # dec_in.signers /\ enc_in.r = 0

\* C10 amended: with t = n = 2 and one key's signature alone, decrypt returns
\* the plaintexts exactly when the pad cancels for every plaintext; otherwise it
\* returns other values or raises.
C10_UndersizedOpensIffPadCancels ==
    Undersized =>
        (dec_out = Return(enc_in.messages)
            <=> \A i \in 1 .. Len(enc_in.messages) : PadCancels(i))

\* C10 witness: one key signed, the pad did not cancel, discrete_log raised.
C10_Witness ==
    /\ Undersized
    /\ ~PadCancels(1)
    /\ dec_in.used_vk_indices = dec_in.signers
    /\ dec_out = ValueError

(***************************************************************************)
(* Properties of the calls that list a key twice (SpecDup).                *)
(***************************************************************************)
\* C12: compute_li raises ValueError whenever xi[i] = xi[j] for some j # i, and so
\* do agg_sigs, agg_verify and decrypt when a key is listed twice: none of them
\* returns a value.
C12_DuplicatesRejected ==
    /\ (li_out # NotRun /\ DividesByZero(li_in.xi, li_in.i)) => li_out = ValueError
    /\ as_in # NotRun => agg_sig = ValueError
    /\ (AVRan /\ av_in.kind = "repeated") => av_out = ValueError
    /\ (DecRan /\ HasRepeat(dec_in.used_vk_indices)) => dec_out = ValueError

\* C13: encrypt called with dec_threshold > len(ver_keys) raises ValueError
\* instead of returning a ciphertext, so every ciphertext returned has
\* 1 <= dec_threshold <= len(ver_keys).
C13_OversizedThresholdRejected ==
    EncRan =>
        /\ enc_in.dec_threshold > Len(keys) => ctxt = ValueError
        /\ ctxt # ValueError =>
              (1 <= enc_in.dec_threshold /\ enc_in.dec_threshold <= Len(keys))

ShardRan == shard_out # NotRun

C15_OrderInsensitive ==
    DecRan =>
        LET used == dec_in.used_vk_indices
            sorted == Distinct(used)
        IN  /\ dec_in.aggr_signature = agg_sigs(TargetSigs(sorted), Pick(VerKeys, sorted))
            /\ RecombinedC(ctxt, VerKeys, used) = RecombinedC(ctxt, VerKeys, sorted)
            /\ dec_out = decrypt(ctxt, dec_in.aggr_signature, VerKeys, sorted,
                                 MsgLengths, baby_steps)

\* C15 witness: three keys listed as 3, 1, 2, none with a zero secret key or a
\* zero share, decrypted a non-zero message.
C15_Witness ==
    /\ DecRan
    /\ dec_in.used_vk_indices = <<3, 1, 2>>
    /\ \A i \in 1 .. 3 : keys[i].sk # 0 /\ Shares[i] # 0
    /\ enc_in.r # 0
    /\ enc_in.alpha[1] # 0
    /\ enc_in.messages[1] = 1
    /\ dec_out = Return(enc_in.messages)

====
